---- MODULE Spec2Model ----
(***************************************************************************)
(* Med Interaction Map: the client component MedInteractionMapFinal        *)
(* (src/unnamed/part_000).  Strings are sequences of UTF-16 code units, so *)
(* that joining, sorting and trimming are computed as the code computes    *)
(* them.                                                                   *)
(***************************************************************************)
EXTENDS Naturals, Integers, Sequences, FiniteSets, TLC

VARIABLES selected, pairs, loadingPairs, cycles,
          query, suggestions, loadingQuery, timer, normReqs,
          quiet, served

vars == <<selected, pairs, loadingPairs, cycles,
          query, suggestions, loadingQuery, timer, normReqs,
          quiet, served>>

refreshVars == <<selected, pairs, loadingPairs, cycles>>
\* quiet is the time since the query last changed
searchVars == <<query, suggestions, loadingQuery, timer, normReqs, quiet>>

(* ------------------------------ bounds -------------------------------- *)

\* interaction lookups held by refresh cycles that have not resumed
MaxLookups == 4
\* normalization requests in flight
MaxNormReqs == 2
\* the time one step of the clock takes, in ms
TickMs == 100

(* ----------------------------- constants ------------------------------ *)

\* "|", the separator of a pair key
Bar == 124
\* ",", the separator of the joined key list
Comma == 44
\* " ", the white space of the queries
Space == 32
\* items.slice(0, 10)
SliceEnd == 10
\* the delay of the debounce timer, in ms
DebounceMs == 200

(* ------------------------------ strings ------------------------------- *)

\* s < t by UTF-16 code units, the order of Array.prototype.sort()
RECURSIVE StrLess(_, _)
StrLess(s, t) ==
  IF t = <<>> THEN FALSE
  ELSE IF s = <<>> THEN TRUE
  ELSE IF Head(s) # Head(t) THEN Head(s) < Head(t)
  ELSE StrLess(Tail(s), Tail(t))

\* a.localeCompare(b) on names of upper-case ASCII letters: -1, 0 or 1
LocaleCompare(a, b) ==
  IF a = b THEN 0 ELSE IF StrLess(a, b) THEN -1 ELSE 1

\* String.prototype.trim
RECURSIVE TrimStart(_)
TrimStart(s) ==
  IF s # <<>> /\ Head(s) = Space THEN TrimStart(Tail(s)) ELSE s

RECURSIVE TrimEnd(_)
TrimEnd(s) ==
  IF s # <<>> /\ s[Len(s)] = Space THEN TrimEnd(SubSeq(s, 1, Len(s) - 1)) ELSE s

Trim(s) == TrimEnd(TrimStart(s))

\* Array.prototype.join
RECURSIVE Join(_, _)
Join(strs, sep) ==
  IF strs = <<>> THEN <<>>
  ELSE IF Len(strs) = 1 THEN strs[1]
  ELSE strs[1] \o <<sep>> \o Join(Tail(strs), sep)

\* Array.prototype.slice(0, end)
Slice(s, end) == SubSeq(s, 1, IF Len(s) < end THEN Len(s) ELSE end)

(* ------------------------------- data --------------------------------- *)

\* CanonicalItem values: ids "2", "10", "3"; names "A", "B", "B"
Items ==
  { [id |-> <<50>>, display |-> <<65>>],
    [id |-> <<49, 48>>, display |-> <<66>>],
    [id |-> <<51>>, display |-> <<66>>] }

ItemIds == { i.id : i \in Items }

\* the values the search box takes: "", " ", "w", "x"
Queries == { <<>>, <<Space>>, <<119>>, <<120>> }

\* a cached value: a record (stood for by its severity) or null
Null == "null"
Major == "major"

\* responses of GET /api/interactions: status and the body's severity ("" = none)
Pending == [state |-> "pending", ok |-> FALSE, severity |-> ""]
Response(ok, severity) == [state |-> "settled", ok |-> ok, severity |-> severity]
Responses == { Response(TRUE, Major), Response(TRUE, ""), Response(FALSE, "") }

\* fetch rejected: the transport failed and there is no response
Rejected == [state |-> "rejected", ok |-> FALSE, severity |-> ""]

AllResponses == Responses \cup { Rejected }

\* a response of GET /api/normalize as fetch delivers it: net is FALSE when fetch
\* rejects, ok is res.ok, body is "unparseable" (res.json() rejects), "null",
\* "noarray" (canonical is no array) or "array", canonical is json.canonical
NormResponse(net, ok, body, canonical) ==
  [net |-> net, ok |-> ok, body |-> body, canonical |-> canonical]

OfferedItems == { j \in Items : j.display = <<65>> }

NormResponses ==
  { NormResponse(TRUE, TRUE, "array", <<>>),
    NormResponse(TRUE, FALSE, "array", <<>>),
    NormResponse(FALSE, FALSE, "unparseable", <<>>),
    NormResponse(TRUE, TRUE, "unparseable", <<>>),
    NormResponse(TRUE, TRUE, "null", <<>>) }
  \cup { NormResponse(TRUE, TRUE, "array", <<i>>) : i \in OfferedItems }
  \cup { NormResponse(TRUE, TRUE, "noarray", <<i>>) : i \in OfferedItems }

EmptyCache == [k \in {} |-> Null]

(* ------------------------- pair set builder --------------------------- *)

RECURSIVE InsertSorted(_, _)
InsertSorted(x, s) ==
  IF s = <<>> THEN <<x>>
  ELSE IF LocaleCompare(x.display, Head(s).display) < 0 THEN <<x>> \o s
  ELSE <<Head(s)>> \o InsertSorted(x, Tail(s))

\* [...selected].sort((a, b) => a.display.localeCompare(b.display)), a stable sort
RECURSIVE gridItems(_)
gridItems(sel) ==
  IF sel = <<>> THEN <<>>
  ELSE InsertSorted(sel[Len(sel)], gridItems(SubSeq(sel, 1, Len(sel) - 1)))

\* `${a.id}|${b.id}`
PairKey(a, b) == a.id \o <<Bar>> \o b.id

\* PairLoop with the inner loop started at i instead of i + 1
RECURSIVE PairLoopFromI(_, _, _, _)
PairLoopFromI(g, i, j, out) ==
  IF i > Len(g) THEN out
  ELSE IF j > Len(g) THEN PairLoopFromI(g, i + 1, i + 1, out)
  ELSE PairLoopFromI(g, i, j + 1, Append(out, [key |-> PairKey(g[i], g[j]), a |-> g[i], b |-> g[j]]))

RECURSIVE PairLoop(_, _, _, _)
PairLoop(g, i, j, out) ==
  IF i > Len(g) THEN out
  ELSE IF j > Len(g) THEN PairLoop(g, i + 1, i + 2, out)
  ELSE PairLoop(g, i, j + 1, Append(out, [key |-> PairKey(g[i], g[j]), a |-> g[i], b |-> g[j]]))

pairList(sel) == PairLoop(gridItems(sel), 1, 2, <<>>)

KeysOf(pl) == [n \in 1..Len(pl) |-> pl[n].key]

\* pairList.map(p => p.key).join(","), the dependency of the refresh effect
DepKey(pl) == Join(KeysOf(pl), Comma)

\* [row.id, col.id].sort().join("|"), the key a matrix cell reads
CellKey(row, col) ==
  IF StrLess(col.id, row.id) THEN Join(<<col.id, row.id>>, Bar)
  ELSE Join(<<row.id, col.id>>, Bar)

(* --------------------------- the clients ------------------------------ *)

Throw == "throw"

\* apiInteraction with a non-OK response or a rejected fetch read as "no record"
apiInteractionNullOnError(res) ==
  IF res.state = "rejected" \/ ~res.ok THEN Null
  ELSE IF res.severity # "" THEN res.severity
  ELSE Null

\* apiInteraction: the record, null, or a thrown error
apiInteraction(res) ==
  IF res.state = "rejected" \/ ~res.ok THEN Throw
  ELSE IF res.severity # "" THEN res.severity
  ELSE Null

\* the per-pair try/catch: [p.key, rec], or [p.key, null] on a throw
Entry(p, res) ==
  IF apiInteraction(res) = Throw THEN <<p.key, Null>>
  ELSE <<p.key, apiInteraction(res)>>

\* Object.fromEntries: a later entry of a key replaces an earlier one
FromEntries(entries) ==
  [k \in { entries[n][1] : n \in DOMAIN entries } |->
     LET last == CHOOSE n \in DOMAIN entries :
                   /\ entries[n][1] = k
                   /\ \A m \in DOMAIN entries : entries[m][1] = k => m <= n
     IN entries[last][2]]

\* apiNormalize without the Array.isArray test
apiNormalizeAnyCanonical(res) ==
  IF ~res.net \/ ~res.ok \/ res.body \in {"unparseable", "null"}
  THEN [threw |-> TRUE, items |-> <<>>]
  ELSE [threw |-> FALSE, items |-> res.canonical]

\* apiNormalize: the canonical list, [] when canonical is no array, or a thrown
\* error (fetch rejected, status not OK, body unparseable, json null)
apiNormalize(res) ==
  IF ~res.net \/ ~res.ok \/ res.body \in {"unparseable", "null"}
  THEN [threw |-> TRUE, items |-> <<>>]
  ELSE [threw |-> FALSE, items |-> IF res.body = "array" THEN res.canonical ELSE <<>>]

(* ------------------------------ state --------------------------------- *)

HasId(sel, id) == \E n \in DOMAIN sel : sel[n].id = id

\* the arguments of the lookup of pair p: apiInteraction(p.a.display, p.b.display)
LookupArgs(p) == [a |-> p.a.display, b |-> p.b.display]

\* a cycle: its pair list, the arguments and the outcome of each lookup, and
\* the effect's cancelled flag
NewCycle(pl) ==
  [list |-> pl,
   args |-> [n \in 1..Len(pl) |-> LookupArgs(pl[n])],
   res |-> [n \in 1..Len(pl) |-> Pending],
   cancelled |-> FALSE]

Settled(c) == \A n \in DOMAIN c.res : c.res[n].state # "pending"

\* the effect's cleanup: cancelled = true
Cleanup(cs) == [n \in DOMAIN cs |-> [cs[n] EXCEPT !.cancelled = TRUE]]

\* the lookups of the cycles still awaiting Promise.all
RECURSIVE InFlight(_)
InFlight(cs) ==
  IF cs = <<>> THEN 0 ELSE Len(Head(cs).list) + InFlight(Tail(cs))

RemoveAt(s, n) == SubSeq(s, 1, n - 1) \o SubSeq(s, n + 1, Len(s))

\* setTimeout(callback, 200) of a render whose query is q
NewTimer(q) == [q |-> q, left |-> DebounceMs]

\* no request has reached the API routes
NoExchange == [route |-> "none"]

Init ==
  /\ selected = <<>>
  /\ pairs = EmptyCache
  /\ loadingPairs = FALSE
  /\ cycles = <<>>
  /\ query = <<>>
  /\ suggestions = <<>>
  /\ loadingQuery = FALSE
  /\ timer = <<NewTimer(<<>>)>>
  /\ normReqs = <<>>
  /\ quiet = 0
  /\ served = NoExchange

\* RefreshEffect without the reset of the cache on an empty pair list
RefreshEffectNoClear(sel) ==
  LET pl == pairList(sel) IN
  IF DepKey(pl) = DepKey(pairList(selected))
  THEN UNCHANGED <<pairs, loadingPairs, cycles>>
  ELSE IF Len(pl) = 0
  THEN /\ cycles' = Cleanup(cycles)
       /\ UNCHANGED <<pairs, loadingPairs>>
  ELSE /\ InFlight(cycles) + Len(pl) <= MaxLookups
       /\ loadingPairs' = TRUE
       /\ cycles' = Append(Cleanup(cycles), NewCycle(pl))
       /\ UNCHANGED pairs

\* RefreshEffect depending on pairList itself, a new array on every change of selected
RefreshEffectEveryRender(sel) ==
  LET pl == pairList(sel) IN
  IF Len(pl) = 0
  THEN /\ pairs' = EmptyCache
       /\ cycles' = Cleanup(cycles)
       /\ UNCHANGED loadingPairs
  ELSE /\ InFlight(cycles) + Len(pl) <= MaxLookups
       /\ loadingPairs' = TRUE
       /\ cycles' = Append(Cleanup(cycles), NewCycle(pl))
       /\ UNCHANGED pairs

\* the refresh effect, run when the joined key list of the new render differs
RefreshEffect(sel) ==
  LET pl == pairList(sel) IN
  IF DepKey(pl) = DepKey(pairList(selected))
  THEN UNCHANGED <<pairs, loadingPairs, cycles>>
  ELSE IF Len(pl) = 0
  THEN /\ pairs' = EmptyCache
       /\ cycles' = Cleanup(cycles)
       /\ UNCHANGED loadingPairs
  ELSE /\ InFlight(cycles) + Len(pl) <= MaxLookups
       /\ loadingPairs' = TRUE
       /\ cycles' = Append(Cleanup(cycles), NewCycle(pl))
       /\ UNCHANGED pairs

\* SearchEffect without the cleanup: the timer of the last render is not cleared
SearchEffectNoClear(q) ==
  /\ timer' = IF q # query THEN Append(timer, NewTimer(q)) ELSE timer
  /\ quiet' = IF q # query THEN 0 ELSE quiet

\* the search effect, run when the query of the new render differs:
\* clearTimeout of the last render's timer, then setTimeout
SearchEffect(q) ==
  /\ timer' = IF q # query THEN <<NewTimer(q)>> ELSE timer
  /\ quiet' = IF q # query THEN 0 ELSE quiet

\* addItem without the test for an id already selected
addItemNoTest(i) ==
  /\ selected' = Append(selected, i)
  /\ query' = <<>>
  /\ suggestions' = <<>>
  /\ SearchEffect(<<>>)
  /\ RefreshEffect(selected')
  /\ UNCHANGED <<loadingQuery, normReqs>>

addItem(i) ==
  IF HasId(selected, i.id)
  THEN UNCHANGED vars
  ELSE /\ selected' = Append(selected, i)
       /\ query' = <<>>
       /\ suggestions' = <<>>
       /\ SearchEffect(<<>>)
       /\ RefreshEffect(selected')
       /\ UNCHANGED <<loadingQuery, normReqs>>

Filter(sel, id) == SelectSeq(sel, LAMBDA p : p.id # id)

removeItem(id) ==
  /\ selected' = Filter(selected, id)
  /\ RefreshEffect(selected')
  /\ UNCHANGED searchVars

\* Entries with one catch around the whole batch: a failure voids every entry
EntriesOneCatch(cyc) ==
  IF \E m \in DOMAIN cyc.list : apiInteraction(cyc.res[m]) = Throw
  THEN [m \in DOMAIN cyc.list |-> <<cyc.list[m].key, Null>>]
  ELSE [m \in DOMAIN cyc.list |-> Entry(cyc.list[m], cyc.res[m])]

\* the entries Promise.all resolves to
Entries(cyc) == [m \in DOMAIN cyc.list |-> Entry(cyc.list[m], cyc.res[m])]

\* AfterAll without the test of cancelled
AfterAllUnguarded(cyc) ==
  /\ pairs' = FromEntries(Entries(cyc))
  /\ loadingPairs' = FALSE

\* AfterAll without the finally block
AfterAllNoFinally(cyc) ==
  /\ pairs' = IF ~cyc.cancelled THEN FromEntries(Entries(cyc)) ELSE pairs
  /\ UNCHANGED loadingPairs

\* AfterAll with the entries merged into the cache that is there
AfterAllMerge(cyc) ==
  /\ pairs' = IF ~cyc.cancelled THEN FromEntries(Entries(cyc)) @@ pairs ELSE pairs
  /\ loadingPairs' = IF ~cyc.cancelled THEN FALSE ELSE loadingPairs

\* the rest of the cycle after Promise.all: the guarded merge and the finally block
AfterAll(cyc) ==
  /\ pairs' = IF ~cyc.cancelled THEN FromEntries(Entries(cyc)) ELSE pairs
  /\ loadingPairs' = IF ~cyc.cancelled THEN FALSE ELSE loadingPairs

\* one lookup of a cycle settles; the last one resumes the cycle after Promise.all
SettleLookup(c, n, res) ==
  /\ c \in DOMAIN cycles
  /\ n \in DOMAIN cycles[c].res
  /\ cycles[c].res[n] = Pending
  /\ LET cyc == [cycles[c] EXCEPT !.res[n] = res]
     IN IF ~Settled(cyc)
        THEN /\ cycles' = [cycles EXCEPT ![c] = cyc]
             /\ UNCHANGED <<pairs, loadingPairs>>
        ELSE /\ cycles' = RemoveAt(cycles, c)
             /\ AfterAll(cyc)
  /\ UNCHANGED <<selected>>
  /\ UNCHANGED searchVars

\* onChange of the search box
setQuery(q) ==
  /\ q # query
  /\ query' = q
  /\ SearchEffect(q)
  /\ UNCHANGED <<suggestions, loadingQuery, normReqs>>
  /\ UNCHANGED refreshVars

Min(a, b) == IF a < b THEN a ELSE b
Max(a, b) == IF a < b THEN b ELSE a

\* time passes: TickMs less is left on every timer
Tick ==
  /\ quiet < DebounceMs \/ \E n \in DOMAIN timer : timer[n].left > 0
  /\ timer' = [n \in DOMAIN timer |-> [timer[n] EXCEPT !.left = Max(0, @ - TickMs)]]
  /\ quiet' = Min(DebounceMs, quiet + TickMs)
  /\ UNCHANGED <<query, suggestions, loadingQuery, normReqs>>
  /\ UNCHANGED refreshVars

\* the callback of a timer that is due, up to the await; q is the query of its render
TimerFire(n) ==
  /\ n \in DOMAIN timer
  /\ timer[n].left = 0
  /\ timer' = RemoveAt(timer, n)
  /\ IF Trim(timer[n].q) = <<>>
     THEN /\ suggestions' = <<>>
          /\ UNCHANGED <<loadingQuery, normReqs>>
     ELSE /\ Len(normReqs) < MaxNormReqs
          /\ loadingQuery' = TRUE
          /\ normReqs' = Append(normReqs, Trim(timer[n].q))
          /\ UNCHANGED suggestions
  /\ UNCHANGED <<query, quiet>>
  /\ UNCHANGED refreshVars

\* a normalization request settles and the callback resumes
SettleNormalize(n, res) ==
  /\ n \in DOMAIN normReqs
  /\ normReqs' = RemoveAt(normReqs, n)
  /\ suggestions' = IF apiNormalize(res).threw THEN <<>>
                    ELSE Slice(apiNormalize(res).items, SliceEnd)
  /\ loadingQuery' = FALSE
  /\ UNCHANGED <<query, timer, quiet>>
  /\ UNCHANGED refreshVars

\* the longest pair list: all 2-combinations of the items
MaxPairs == (Cardinality(Items) * (Cardinality(Items) - 1)) \div 2

Settle == \E c \in 1..MaxLookups, n \in 1..MaxPairs, res \in Responses : SettleLookup(c, n, res)

(* --------------------------- the API routes --------------------------- *)

\* "%", "2", "0" and "+": the escape of a space, and the other spelling of one
Percent == 37
Digit2 == 50
Digit0 == 48
Plus == 43

\* encodeURIComponent, on strings of letters, digits and spaces
RECURSIVE encodeURIComponent(_)
encodeURIComponent(str) ==
  IF str = <<>> THEN <<>>
  ELSE IF Head(str) = Space THEN <<Percent, Digit2, Digit0>> \o encodeURIComponent(Tail(str))
  ELSE <<Head(str)>> \o encodeURIComponent(Tail(str))

\* the decoding URLSearchParams does of a value
RECURSIVE SearchParamDecode(_)
SearchParamDecode(str) ==
  IF str = <<>> THEN <<>>
  ELSE IF Len(str) >= 3 /\ SubSeq(str, 1, 3) = <<Percent, Digit2, Digit0>>
  THEN <<Space>> \o SearchParamDecode(SubSeq(str, 4, Len(str)))
  ELSE IF Head(str) = Plus THEN <<Space>> \o SearchParamDecode(Tail(str))
  ELSE <<Head(str)>> \o SearchParamDecode(Tail(str))

\* searchParams.get(name): null when the parameter is missing
Missing == [present |-> FALSE, value |-> <<>>]
Param(raw) == [present |-> TRUE, value |-> SearchParamDecode(raw)]

\* !q
Falsy(q) == ~q.present \/ q.value = <<>>

\* outcomes of the RxNorm approximate-term search: fetch or json() failed, or
\* the candidates of approximateGroup
NormUpstream(failed, candidates) == [failed |-> failed, candidates |-> candidates]

\* GET_normalize without the test of q
GET_normalizeNoTest(q, up) ==
  [route |-> "normalize", q |-> q, called |-> TRUE, status |-> 200,
   canonical |-> IF up.failed THEN <<>>
                 ELSE [n \in DOMAIN up.candidates |->
                         [id |-> up.candidates[n].rxcui, display |-> up.candidates[n].name]]]

\* GET_normalize: the exchange it makes of parameter q when the upstream answers up;
\* called tells whether the upstream was fetched
GET_normalize(q, up) ==
  IF Falsy(q)
  THEN [route |-> "normalize", q |-> q, called |-> FALSE, status |-> 200, canonical |-> <<>>]
  ELSE [route |-> "normalize", q |-> q, called |-> TRUE, status |-> 200,
        canonical |-> IF up.failed THEN <<>>
                      ELSE [n \in DOMAIN up.candidates |->
                              [id |-> up.candidates[n].rxcui, display |-> up.candidates[n].name]]]

\* the candidates the upstream is taken to answer with
Candidates ==
  { <<>> } \cup { <<[rxcui |-> i.id, name |-> i.display]>> : i \in OfferedItems }

NormUpstreams ==
  { NormUpstream(TRUE, <<>>) } \cup { NormUpstream(FALSE, cs) : cs \in Candidates }

\* the response fetch delivers to the client for an exchange of the normalize route
NormDelivered(ex) == NormResponse(TRUE, ex.status = 200, "array", ex.canonical)

\* a request of the component reaches the route and its response settles it
RouteNormalize(n, up) ==
  /\ n \in DOMAIN normReqs
  /\ served' = GET_normalize(Param(encodeURIComponent(normReqs[n])), up)
  /\ SettleNormalize(n, NormDelivered(served'))

\* the values of q other callers of the route send: none, "", "%20", "w"
DirectQueries == { Missing, Param(<<>>), Param(<<Percent, Digit2, Digit0>>), Param(<<119>>) }

\* a request of another caller reaches the normalize route
DirectNormalize(q, up) ==
  /\ served' = GET_normalize(q, up)
  /\ UNCHANGED refreshVars
  /\ UNCHANGED searchVars

\* the longest list of interaction pairs the upstream is taken to answer with
MaxUpPairs == 2

\* an interactionPair of the RxNav answer: its severity, description and comment
\* ("" for an empty or missing one), or an element the loops throw on (an
\* undefined pair, a group or type without its list)
UpPair(severity, description, comment) ==
  [broken |-> FALSE, severity |-> severity, description |-> description, comment |-> comment]

Broken == [broken |-> TRUE, severity |-> "", description |-> "", comment |-> ""]

UpElements == { UpPair("High", "d", "c"), UpPair("", "", ""), Broken }

\* outcomes of the RxNav interaction lookup: fetch or json() failed, or the
\* interaction pairs of fullInteractionTypeGroup in the order the loops visit
\* them (none when the answer has no group)
InterUpstream(failed, elems) == [failed |-> failed, elems |-> elems]

InterUpstreams ==
  { InterUpstream(TRUE, <<>>) } \cup
  { InterUpstream(FALSE, e) : e \in UNION { [1..k -> UpElements] : k \in 0..MaxUpPairs } }

\* String.prototype.toLowerCase on the severities of UpElements
toLowerCase(str) == IF str = "High" THEN "high" ELSE str

\* v || w
Or(v, w) == IF v = Null \/ v = "" THEN w ELSE v

Minor == "minor"
NoDetails == "No interaction details available"
RxNorm == "RxNorm"
StaticSources == <<"MedlinePlus Connect", "OpenFDA/DailyMed", "NCCIH Herbs">>

\* the loops over the interaction pairs inside the try block; a throw leaves
\* them with what was assigned so far
RECURSIVE InteractionLoop(_, _)
InteractionLoop(elems, acc) ==
  IF elems = <<>> THEN acc
  ELSE IF Head(elems).broken THEN acc
  ELSE InteractionLoop(Tail(elems),
         [severity |-> toLowerCase(Or(Head(elems).severity, "")),
          guidance |-> Head(elems).description,
          mechanism |-> Or(Head(elems).comment, Null),
          sources |-> Append(acc.sources, RxNorm)])

\* GET_interactions with the static links pushed inside the try block
GET_interactionsLinksInTry(a, b, up) ==
  IF Falsy(a) \/ Falsy(b)
  THEN [route |-> "interactions", a |-> a, b |-> b, up |-> up, called |-> FALSE,
        status |-> 200, empty |-> TRUE, severity |-> "", guidance |-> "",
        mechanism |-> Null, sources |-> <<>>]
  ELSE LET elems == IF up.failed THEN <<>> ELSE up.elems
           acc == InteractionLoop(elems,
                    [severity |-> Null, guidance |-> Null, mechanism |-> Null, sources |-> <<>>])
           threw == up.failed \/ \E n \in DOMAIN elems : elems[n].broken
       IN [route |-> "interactions", a |-> a, b |-> b, up |-> up, called |-> TRUE,
           status |-> 200, empty |-> FALSE,
           severity |-> Or(acc.severity, Minor),
           guidance |-> Or(acc.guidance, NoDetails),
           mechanism |-> acc.mechanism,
           sources |-> IF threw THEN acc.sources ELSE acc.sources \o StaticSources]

\* GET_interactions: the exchange it makes of parameters a and b when the
\* upstream answers up; empty tells that the body is {}
GET_interactions(a, b, up) ==
  IF Falsy(a) \/ Falsy(b)
  THEN [route |-> "interactions", a |-> a, b |-> b, up |-> up, called |-> FALSE,
        status |-> 200, empty |-> TRUE, severity |-> "", guidance |-> "",
        mechanism |-> Null, sources |-> <<>>]
  ELSE LET acc == InteractionLoop(IF up.failed THEN <<>> ELSE up.elems,
                    [severity |-> Null, guidance |-> Null, mechanism |-> Null, sources |-> <<>>])
       IN [route |-> "interactions", a |-> a, b |-> b, up |-> up, called |-> TRUE,
           status |-> 200, empty |-> FALSE,
           severity |-> Or(acc.severity, Minor),
           guidance |-> Or(acc.guidance, NoDetails),
           mechanism |-> acc.mechanism,
           sources |-> acc.sources \o StaticSources]

\* the response fetch delivers to the client for an exchange of the interactions
\* route: json.severity is missing from {}
LookupDelivered(ex) == Response(ex.status = 200, IF ex.empty THEN "" ELSE ex.severity)

\* a lookup of a refresh cycle reaches the route and its response settles it
RouteInteraction(c, n, up) ==
  /\ c \in DOMAIN cycles
  /\ n \in DOMAIN cycles[c].res
  /\ served' = GET_interactions(Param(encodeURIComponent(cycles[c].args[n].a)),
                                Param(encodeURIComponent(cycles[c].args[n].b)), up)
  /\ SettleLookup(c, n, LookupDelivered(served'))

\* the values of a and b other callers of the route send: none, "", "A"
DirectParams == { Missing, Param(<<>>), Param(<<65>>) }

\* a request of another caller reaches the interactions route
DirectInteractions(a, b, up) ==
  /\ served' = GET_interactions(a, b, up)
  /\ UNCHANGED refreshVars
  /\ UNCHANGED searchVars

(* ------------------------- specifications ---------------------------- *)

\* the selection and the refresh coordinator, over all the items
Next ==
  \/ (\E i \in Items : addItem(i)) /\ UNCHANGED served
  \/ (\E id \in ItemIds : removeItem(id)) /\ UNCHANGED served
  \/ Settle /\ UNCHANGED served

Spec == Init /\ [][Next]_vars

\* every issued lookup eventually settles
FairSpec == Spec /\ WF_vars(Settle /\ UNCHANGED served)

\* the whole component, search box included, over two of the items
UiItems == { i \in Items : i.display = <<65>> \/ i.id = <<49, 48>> }

UiNext ==
  \/ (\E i \in UiItems : addItem(i)) /\ UNCHANGED served
  \/ (\E id \in ItemIds : removeItem(id)) /\ UNCHANGED served
  \/ (\E c \in 1..MaxLookups, n \in 1..MaxPairs, res \in AllResponses :
        SettleLookup(c, n, res)) /\ UNCHANGED served
  \/ (\E q \in Queries : setQuery(q)) /\ UNCHANGED served
  \/ Tick /\ UNCHANGED served
  \/ (\E n \in DOMAIN timer : TimerFire(n)) /\ UNCHANGED served
  \/ (\E n \in 1..MaxNormReqs, res \in NormResponses : SettleNormalize(n, res)) /\ UNCHANGED served

UiSpec == Init /\ [][UiNext]_vars

\* the search box with the normalize route behind it
SearchApiNext ==
  \/ (\E q \in Queries : setQuery(q)) /\ UNCHANGED served
  \/ Tick /\ UNCHANGED served
  \/ (\E n \in DOMAIN timer : TimerFire(n)) /\ UNCHANGED served
  \/ \E n \in 1..MaxNormReqs, up \in NormUpstreams : RouteNormalize(n, up)
  \/ (\E n \in 1..MaxNormReqs, res \in { r \in NormResponses : ~r.net \/ ~r.ok } :
        SettleNormalize(n, res)) /\ UNCHANGED served
  \/ \E q \in DirectQueries, up \in NormUpstreams : DirectNormalize(q, up)

SearchApiSpec == Init /\ [][SearchApiNext]_vars

\* the lookups that fail before the route answers: a non-OK status, a rejected fetch
FailedLookups == { Response(FALSE, ""), Rejected }

\* the selection and its refresh cycles with the interactions route behind them
InteractionsApiNext ==
  \/ (\E i \in UiItems : addItem(i)) /\ UNCHANGED served
  \/ (\E id \in ItemIds : removeItem(id)) /\ UNCHANGED served
  \/ \E c \in 1..MaxLookups, n \in 1..MaxPairs, up \in InterUpstreams : RouteInteraction(c, n, up)
  \/ (\E c \in 1..MaxLookups, n \in 1..MaxPairs, res \in FailedLookups :
        SettleLookup(c, n, res)) /\ UNCHANGED served
  \/ \E a \in DirectParams, b \in DirectParams, up \in InterUpstreams : DirectInteractions(a, b, up)

InteractionsApiSpec == Init /\ [][InteractionsApiNext]_vars

(* ------------------------------ claims -------------------------------- *)

CurKeys == { pairList(selected)[n].key : n \in DOMAIN pairList(selected) }

\* C1: a refresh cycle that was superseded while its lookups were in flight
\* never writes the cache when it resumes: the cache changes on the resumption
\* of a cycle only if that cycle is the latest one, for the current pair list.
StaleNeverMerged ==
  [][\A c \in DOMAIN cycles :
       cycles' = RemoveAt(cycles, c) =>
         /\ cycles[c].cancelled => pairs' = pairs
         /\ pairs' # pairs =>
              (c = Len(cycles) /\ cycles[c].list = pairList(selected))]_vars

\* three items selected, the second cycle alone in flight and nothing cached:
\* the cycle of the first two items resumed after it was superseded
StaleDiscarded ==
  /\ Len(selected) = 3
  /\ pairs = EmptyCache
  /\ Len(cycles) = 1
  /\ ~cycles[1].cancelled

\* C2: the key every pair-list entry is tagged and cached under equals the key
\* the matrix cell reads, for both orientations of the cell.
KeyMatchesCell ==
  \A n \in DOMAIN pairList(selected) :
    LET p == pairList(selected)[n] IN
      /\ p.key = CellKey(p.a, p.b)
      /\ p.key = CellKey(p.b, p.a)

Perms(sel) ==
  { s \in [1..Len(sel) -> { sel[n] : n \in DOMAIN sel }] :
      \A a, b \in 1..Len(sel) : a # b => s[a] # s[b] }

\* C3: the pair list depends on the set of selected ids only: every order of
\* adding the same items gives the same entries in the same order.
PairListDeterministic ==
  \A s \in Perms(selected) : pairList(s) = pairList(selected)

\* C4: the pair list of n selected items has n*(n-1)/2 entries, holds every
\* unordered pair of distinct selected items exactly once, pairs no item with
\* itself and has no key twice.
PairListComplete ==
  LET pl == pairList(selected)
      n == Len(selected)
  IN /\ 2 * Len(pl) = n * (n - 1)
     /\ \A a, b \in 1..n :
          a < b => Cardinality({ m \in DOMAIN pl :
                                   {pl[m].a, pl[m].b} = {selected[a], selected[b]} }) = 1
     /\ \A m \in DOMAIN pl : pl[m].a.id # pl[m].b.id
     /\ \A m1, m2 \in DOMAIN pl : m1 # m2 => pl[m1].key # pl[m2].key

ThreeSelected == Len(selected) = 3 /\ Len(pairList(selected)) = 3

\* C5: while the pair list is empty the cache is empty, whatever settles
\* meanwhile, and a change that empties the pair list issues no lookup.
CacheEmptyWhileNoPairs ==
  /\ [](pairList(selected) = <<>> => pairs = EmptyCache)
  /\ [][pairList(selected') = <<>> => InFlight(cycles') <= InFlight(cycles)]_vars

\* fewer than two items, no cycle left in flight and the indicator still set:
\* the cycle that the emptying cancelled has resumed since
EmptiedThenSettled ==
  /\ Len(selected) < 2
  /\ pairs = EmptyCache
  /\ cycles = <<>>
  /\ loadingPairs

\* C6: once an empty pair list has been processed the refreshing indicator
\* loadingPairs is false.
IdleWhenNoPairs == pairList(selected) = <<>> => ~loadingPairs

CacheCurrent == ~loadingPairs /\ DOMAIN pairs = CurKeys

\* C7: if the selection stops changing with a non-empty pair list, and every
\* lookup settles, then eventually loadingPairs is false for good and the cache
\* has an entry for every key of the pair list.
RefreshCompletes ==
  <>[][selected' = selected]_vars =>
    <>[](pairList(selected) # <<>> => CacheCurrent)

RefreshDone ==
  /\ Len(selected) >= 2
  /\ cycles = <<>>
  /\ CacheCurrent

\* C8: when the latest cycle resumes, every pair is cached under its own key
\* with null if its lookup failed and with what its own lookup returned
\* otherwise, and the indicator is reset.
FailureIsolated ==
  [][\A c \in DOMAIN cycles, n \in 1..MaxPairs, res \in Responses :
       (SettleLookup(c, n, res) /\ Len(cycles') < Len(cycles) /\ ~cycles[c].cancelled) =>
         LET cyc == [cycles[c] EXCEPT !.res[n] = res] IN
           /\ ~loadingPairs'
           /\ DOMAIN pairs' = { cyc.list[m].key : m \in DOMAIN cyc.list }
           /\ \A m \in DOMAIN cyc.list :
                pairs'[cyc.list[m].key] =
                  IF ~cyc.res[m].ok THEN Null ELSE apiInteraction(cyc.res[m])]_vars

\* the latest cycle holds a failed lookup beside one that returned a record
FailedBesideRecord ==
  \E c \in DOMAIN cycles :
    /\ ~cycles[c].cancelled
    /\ \E m1, m2 \in DOMAIN cycles[c].res :
         /\ cycles[c].res[m1] = Response(FALSE, "")
         /\ cycles[c].res[m2] = Response(TRUE, Major)

NoDuplicateIds ==
  \A a, b \in DOMAIN selected : a # b => selected[a].id # selected[b].id

\* C9: the selection never holds an id twice, and adding an item whose id is
\* selected changes neither the selection, the cache, the query, the
\* suggestions nor the cycles in flight.
AddIsIdempotent ==
  /\ []NoDuplicateIds
  /\ [][\A i \in Items :
          (HasId(selected, i.id) /\ addItem(i)) =>
            UNCHANGED <<selected, pairs, query, suggestions, cycles, loadingPairs>>]_vars

\* a suggestion whose id is selected is on offer while a cycle is in flight
DuplicateOnOffer ==
  /\ query # <<>>
  /\ suggestions # <<>>
  /\ HasId(selected, suggestions[1].id)
  /\ Len(selected) = 2
  /\ cycles # <<>>
  /\ ~cycles[Len(cycles)].cancelled

\* C10: removing an id that is not selected changes neither the selection, the
\* cache nor the cycles in flight: none is started and none is cancelled.
RemoveAbsentIsNoOp ==
  [][\A id \in ItemIds :
       (~HasId(selected, id) /\ removeItem(id)) =>
         UNCHANGED <<selected, pairs, cycles, loadingPairs>>]_vars

\* two items selected with their cycle in flight, and a third id to remove
AbsentIdWhileInFlight ==
  /\ Len(selected) = 2
  /\ cycles # <<>>
  /\ ~cycles[Len(cycles)].cancelled
  /\ \E id \in ItemIds : ~HasId(selected, id)

\* C11: a normalization request is issued only by the one timer of the query
\* that is still in the box and only after that query stood unchanged for the
\* whole delay; the timers of superseded keystrokes are never pending, and a
\* timer issues at most one request.
Debounced ==
  /\ [](\A n \in DOMAIN timer : n = 1 /\ timer[n].q = query)
  /\ [][Len(normReqs') > Len(normReqs) =>
          /\ normReqs' = Append(normReqs, Trim(query))
          /\ quiet >= DebounceMs
          /\ timer = <<[q |-> query, left |-> 0]>>
          /\ timer' = <<>>]_vars

\* the one request of a query typed after another keystroke, sent once quiet
OneRequestSent ==
  /\ normReqs = <<Trim(query)>>
  /\ Trim(query) # <<>>
  /\ timer = <<>>
  /\ quiet >= DebounceMs

NormFailed(res) == ~res.net \/ ~res.ok \/ res.body # "array"

\* C13: whatever way a normalization request fails (fetch rejected, status not
\* OK, body unparseable or null, canonical no list), its callback completes with
\* the suggestions empty and loadingQuery false.
NormalizeFailureDegrades ==
  [][\A n \in DOMAIN normReqs, res \in NormResponses :
       (SettleNormalize(n, res) /\ NormFailed(res)) =>
         (suggestions' = <<>> /\ ~loadingQuery')]_vars

\* a request is in flight while suggestions are on show: its failure empties them
RequestOverSuggestions ==
  /\ suggestions # <<>>
  /\ normReqs # <<>>
  /\ loadingQuery

\* C12: no normalization request is ever in flight for an empty query; the
\* timer of an empty or whitespace-only query sets the suggestions to [] and
\* sends nothing; and the normalize route answers an empty or missing q with an
\* empty canonical list without fetching the upstream.
EmptyQueryShortCircuits ==
  /\ [](\A n \in DOMAIN normReqs : normReqs[n] # <<>>)
  /\ [][\A n \in DOMAIN timer :
          (TimerFire(n) /\ Trim(timer[n].q) = <<>>) =>
            (suggestions' = <<>> /\ normReqs' = normReqs)]_vars
  /\ []((served.route = "normalize" /\ Falsy(served.q)) =>
          (served.canonical = <<>> /\ ~served.called /\ served.status = 200))

\* the timer of a whitespace-only query has fired with nothing sent, and the
\* route has answered a request without q
EmptyQueryHandled ==
  /\ query = <<Space>>
  /\ timer = <<>>
  /\ normReqs = <<>>
  /\ suggestions = <<>>
  /\ served.route = "normalize"
  /\ ~served.q.present
  /\ ~served.called

\* C19: a response to a request that is not the latest one in flight and asks
\* for another query than the latest does, or that arrives when the query box
\* is empty, leaves the suggestions as they are, and a response to an earlier
\* request does not reset loadingQuery while a later request is in flight.
StaleSuggestionsDropped ==
  [][\A n \in DOMAIN normReqs, res \in NormResponses :
       /\ (/\ SettleNormalize(n, res)
           /\ \/ n < Len(normReqs) /\ normReqs[n] # normReqs[Len(normReqs)]
              \/ Trim(query) = <<>>)
            => suggestions' = suggestions
       /\ (/\ SettleNormalize(n, res)
           /\ n < Len(normReqs)
           /\ normReqs[n] # normReqs[Len(normReqs)])
            => loadingQuery' = loadingQuery]_vars

\* C14: every lookup of every refresh cycle carries the ids of the two members
\* of its pair as its a and b arguments.
LookupsCarryIds ==
  \A c \in DOMAIN cycles : \A n \in DOMAIN cycles[c].list :
    cycles[c].args[n] = [a |-> cycles[c].list[n].a.id, b |-> cycles[c].list[n].b.id]

\* the upstream lookup failed or reported no interaction pair
NoUpstreamPair(up) == up.failed \/ up.elems = <<>>

\* C15: a request with both a and b is answered with {} exactly when the
\* upstream lookup failed or reported no interaction pair, and a cycle that
\* completes caches null for a pair whose lookup was so answered.
NoRecordWhenNoUpstreamPair ==
  /\ []((served.route = "interactions" /\ ~Falsy(served.a) /\ ~Falsy(served.b)) =>
          (served.empty <=> NoUpstreamPair(served.up)))
  /\ [][\A c \in DOMAIN cycles, n \in 1..MaxPairs, up \in InterUpstreams :
          (/\ RouteInteraction(c, n, up)
           /\ NoUpstreamPair(up)
           /\ ~cycles[c].cancelled
           /\ Len(cycles') < Len(cycles))
            => pairs'[cycles[c].list[n].key] = Null]_vars

\* the response carried a severity
CarriesSeverity(res) == res.state = "settled" /\ res.ok /\ res.severity # ""

KeySet(pl) == { pl[n].key : n \in DOMAIN pl }

\* C17: the cache changes only as a whole: to the empty cache when the pair
\* list became empty, or to exactly the keys of the whole pair list of a cycle
\* that completes without having been superseded, which are the keys of the
\* current pair list; and whenever no cycle that was not superseded is in
\* flight, the cache's keys are the keys of the current pair list.
CacheReplacedWhole ==
  /\ [][pairs' # pairs =>
          \/ pairs' = EmptyCache /\ pairList(selected') = <<>>
          \/ \E c \in DOMAIN cycles :
               /\ ~cycles[c].cancelled
               /\ cycles' = RemoveAt(cycles, c)
               /\ DOMAIN pairs' = KeySet(cycles[c].list)
               /\ KeySet(cycles[c].list) = CurKeys]_vars
  /\ []((\A c \in DOMAIN cycles : cycles[c].cancelled) => DOMAIN pairs = CurKeys)

\* two items left selected and their pair alone cached, while the superseded
\* cycle of three items is still in flight
NarrowedCacheReplaced ==
  /\ Len(selected) = 2
  /\ DOMAIN pairs = CurKeys
  /\ cycles # <<>>
  /\ \A c \in DOMAIN cycles : cycles[c].cancelled /\ Len(cycles[c].list) = 3

\* the elements of the upstream answer the loops get through: all of them, or
\* those before the first one they throw on
RECURSIVE Processed(_)
Processed(elems) ==
  IF elems = <<>> THEN <<>>
  ELSE IF Head(elems).broken THEN <<>>
  ELSE <<Head(elems)>> \o Processed(Tail(elems))

\* the interaction pairs the upstream answered with
UpstreamPairs(up) == IF up.failed THEN <<>> ELSE up.elems

\* the answer to a request that carried both a and b
Answered == served.route = "interactions" /\ ~Falsy(served.a) /\ ~Falsy(served.b)

\* the sources end with the three static links, in order
EndsWithStaticSources(sources) ==
  /\ Len(sources) >= Len(StaticSources)
  /\ SubSeq(sources, Len(sources) - Len(StaticSources) + 1, Len(sources)) = StaticSources

\* C18 as stated: the sources of an answer to a request with both a and b end
\* with the three static links in order, preceded by one RxNorm entry per
\* upstream interaction pair, and the severity and guidance are those of the
\* last upstream pair.
SourcesAndLastPairAsStated ==
  Answered =>
    LET ups == UpstreamPairs(served.up)
    IN /\ served.sources = [n \in 1..Len(ups) |-> RxNorm] \o StaticSources
       /\ ups # <<>> =>
            /\ served.severity = ups[Len(ups)].severity
            /\ served.guidance = ups[Len(ups)].description

\* C18, amended: the sources of an answer to a request with both a and b end
\* with the three static links in order, whatever the upstream lookup did; they
\* are preceded by one RxNorm entry per interaction pair the loops got through
\* (all of them unless the answer is malformed); the severity is the lower-cased
\* severity of the last such pair, or "minor" when that is empty or there is no
\* such pair, and the guidance is the description of the last such pair, or the
\* default text when that is empty or there is no such pair.
SourcesAndLastPair ==
  Answered =>
    LET done == Processed(UpstreamPairs(served.up))
        last == done[Len(done)]
    IN /\ EndsWithStaticSources(served.sources)
       /\ served.sources = [n \in 1..Len(done) |-> RxNorm] \o StaticSources
       /\ served.severity =
            IF done = <<>> \/ last.severity = "" THEN Minor ELSE toLowerCase(last.severity)
       /\ served.guidance =
            IF done = <<>> \/ last.description = "" THEN NoDetails ELSE last.description

\* the route has answered a lookup whose upstream answer was malformed after a
\* first pair with an upper-case severity
PartialLookupAnswered ==
  /\ Answered
  /\ ~served.up.failed
  /\ Len(served.up.elems) = 2
  /\ served.up.elems[1].severity = "High"
  /\ served.up.elems[2].broken
  /\ served.severity = "high"
  /\ Len(served.sources) = 4

====
